---- MODULE Spec2Model ----
(***************************************************************************)
(* Session pool (QuerySessionPool) and transactional wrapper               *)
(* (QueryClient.do / doTx) of the YDB Query Service client.                *)
(*                                                                         *)
(* Granularity: one action per synchronous run of code between two         *)
(* suspension points (a call, a promise reaction, a timer, an RPC          *)
(* completion).  Promise reactions that only forward a value to an         *)
(* awaiting caller are folded into the action that settles the promise.    *)
(***************************************************************************)
EXTENDS Integers, Sequences, FiniteSets

\* ---------------------------------------------------------------- bounds
\* poolSettings.maxLimit handed to the constructor
MaxLimit == 1
\* number of concurrent users of the pool
NumCallers == 3
\* number of concurrent callers of QueryClient.do / doTx
NumClients == 2
\* the create RPC succeeds at most this many times in one behaviour
MaxSessions == 2
\* number of destroy() calls in one behaviour
MaxDestroys == 1

\* ------------------------------------------------------ program constants
SESSION_MAX_LIMIT == 20

\* constructor: this.maxLimit = poolSettings?.maxLimit || SESSION_MAX_LIMIT
maxLimit == IF MaxLimit # 0 THEN MaxLimit ELSE SESSION_MAX_LIMIT

Callers == 1..NumCallers
Clients == 1..NumClients
\* users that call pool.acquire directly while the clients run do
Others == Callers \ Clients
\* identities of the acquire() calls that deleteSession issues itself
Repls == (NumCallers + 1)..(NumCallers + MaxSessions)
Owners == Callers \cup Repls
Sids == 1..MaxSessions

\* error classes seen by QueryClient.do
ErrKinds == {"BadSession", "SessionBusy", "Other"}

VARIABLES
    sessions,               \* this.sessions: the live set (insertion order = id order)
    sess,                   \* the QuerySession objects: free, closing, deleted, txId
    created,                \* number of sessions the builder has created
    newSessionsRequested,   \* this.newSessionsRequested
    sessionsBeingDeleted,   \* this.sessionsBeingDeleted
    waiters,                \* this.waiters: queue of waiter closures (named by owner)
    req,                    \* per acquire() call: where its promise chain stands
    deleting,               \* per session: session.delete() calls in flight
    destroyWait,            \* promises destroy() is awaiting (by session)
    destroyLive,            \* [...this.sessions] as destroy() read it
    destroyPc,              \* "idle", "pending", "resolved" or "rejected"
    destroys,               \* number of destroy() calls made
    att,                    \* per caller: the attempt of QueryClient.do it runs
    last,                   \* what the attempt that ended in the last step did
    ev,                     \* what the last step did to the waiter queue
    hist                    \* per session: observations used by the properties

vars == <<sessions, sess, created, newSessionsRequested, sessionsBeingDeleted,
          waiters, req, deleting, destroyWait, destroyLive, destroyPc, destroys, att, last, ev, hist>>

\* The pool's mutable state as one value, so that nested synchronous calls
\* (release -> handler -> deleteSession -> acquire) compose as functions.
Cur == [sessions |-> sessions, sess |-> sess,
        newSessionsRequested |-> newSessionsRequested,
        sessionsBeingDeleted |-> sessionsBeingDeleted,
        waiters |-> waiters, req |-> req, deleting |-> deleting, hist |-> hist,
        ev |-> [kind |-> "none", who |-> 0]]

Commit(P) ==
    /\ sessions' = P.sessions
    /\ sess' = P.sess
    /\ newSessionsRequested' = P.newSessionsRequested
    /\ sessionsBeingDeleted' = P.sessionsBeingDeleted
    /\ waiters' = P.waiters
    /\ req' = P.req
    /\ deleting' = P.deleting
    /\ hist' = P.hist
    /\ ev' = P.ev

Min(S) == CHOOSE x \in S : \A y \in S : x <= y

IdleReq == [pc |-> "idle", sid |-> 0, timed |-> FALSE]
NewSession == [free |-> TRUE, closing |-> FALSE, deleted |-> FALSE, txId |-> FALSE]
NoHist == [broken |-> FALSE, delInc |-> 0, delDec |-> 0, removed |-> 0]
NoAttempt == [pc |-> "none", api |-> "none", txs |-> "none", err |-> "none"]
NoLast == [sid |-> 0, cbErr |-> "none", rpcErr |-> "none",
           reported |-> "none", signal |-> "none", txOpen |-> FALSE]

\* ------------------------------------------------------------ QuerySession
sessionIsFree(P, s) == P.sess[s].free /\ ~P.sess[s].deleted

sessionIsClosing(P, s) == P.sess[s].closing

sessionIsDeleted(P, s) == P.sess[s].deleted

sessionAcquire(P, s) == [P EXCEPT !.sess[s].free = FALSE]

sessionDeleteOnRelease(P, s) == [P EXCEPT !.sess[s].closing = TRUE]

\* session.delete(): marks the session deleted and issues the delete RPC
sessionDelete(P, s) ==
    IF sessionIsDeleted(P, s) THEN P
    ELSE [P EXCEPT !.sess[s].deleted = TRUE, !.deleting[s] = @ + 1]

\* session[sessionRelease](), up to the emit of SESSION_RELEASE
sessionMarkReleased(P, s) == [P EXCEPT !.sess[s].free = TRUE]

\* ---------------------------------------------------------- waiter queue
\* an indexOf that counts from one
indexOfFromOne(q, w) ==
    IF \E i \in 1..Len(q) : q[i] = w
    THEN Min({i \in 1..Len(q) : q[i] = w})
    ELSE -1

\* Array.prototype.indexOf, 0-based, -1 when absent
indexOf(q, w) ==
    IF \E i \in 1..Len(q) : q[i] = w
    THEN Min({i \in 1..Len(q) : q[i] = w}) - 1
    ELSE -1

\* Array.prototype.splice(start, 1): a negative start counts from the end
splice(q, start) ==
    LET n == Len(q)
        at == IF start < 0 THEN (IF n + start < 0 THEN 0 ELSE n + start)
              ELSE (IF start > n THEN n ELSE start)
    IN [i \in 1..(IF at < n THEN n - 1 ELSE n) |-> IF i <= at THEN q[i] ELSE q[i + 1]]

\* the waiter closure of acquire(): clearTimeout, resolve(session.acquire())
waiter(P, w, s) ==
    [sessionAcquire(P, s) EXCEPT !.req[w] = [pc |-> "holding", sid |-> s, timed |-> FALSE]]

\* the timer callback of acquire(): splice the waiter out, reject
onTimeout(P, w) ==
    [P EXCEPT !.waiters = splice(@, indexOf(@, w)), !.req[w] = IdleReq,
              !.ev = [kind |-> "timeout", who |-> w]]

\* a queue served from its end (pop in place of shift)
popIndex(q) == Len(q)

\* which waiter maybeUseSession takes out of the queue: waiters.shift()
shiftIndex(q) == 1

\* maybeUseSession: [P, used]
maybeUseSession(P, s) ==
    IF Len(P.waiters) > 0
    THEN LET k == shiftIndex(P.waiters)
             w == P.waiters[k]
             P1 == [P EXCEPT !.waiters = splice(@, k - 1),
                             !.ev = [kind |-> "handoff", who |-> w]]
         IN [P |-> waiter(P1, w, s), used |-> TRUE]
    ELSE [P |-> P, used |-> FALSE]

\* ------------------------------------------------------------------ acquire
FreeSessions(P) == {s \in P.sessions : sessionIsFree(P, s)}

\* the admission gate of acquire()
gate(P) ==
    Cardinality(P.sessions) + P.newSessionsRequested - P.sessionsBeingDeleted <= maxLimit

\* acquire(timeout), up to the first suspension point, for the call named o
acquire(P, o, timed) ==
    IF FreeSessions(P) # {}
    THEN LET s == Min(FreeSessions(P))
         IN [sessionAcquire(P, s) EXCEPT
                !.req[o] = [pc |-> "holding", sid |-> s, timed |-> FALSE]]
    ELSE IF gate(P)
    THEN [P EXCEPT !.newSessionsRequested = @ + 1,
                   !.req[o] = [pc |-> "rpc", sid |-> 0, timed |-> FALSE]]
    ELSE [P EXCEPT !.waiters = Append(@, o),
                   !.req[o] = [pc |-> "waiting", sid |-> 0, timed |-> timed]]

\* ------------------------------------------------------------ deleteSession
\* deleteSession skips a session that is already deleted
deleteGuard(P, s) == sessionIsDeleted(P, s)

\* deleteSession(session), up to the return of the promise
deleteSession(P, s) ==
    IF deleteGuard(P, s) THEN P
    ELSE LET P1 == [P EXCEPT !.sessionsBeingDeleted = @ + 1,
                             !.hist[s].delInc = @ + 1]
             P2 == IF Len(P1.waiters) > 0
                   THEN acquire(P1, Min({r \in Repls : P1.req[r].pc = "idle"}), FALSE)
                   ELSE P1
         IN sessionDelete(P2, s)

\* handler of SESSION_RELEASE registered by createSession
onSessionRelease(P, s) ==
    IF sessionIsClosing(P, s) THEN deleteSession(P, s)
    ELSE maybeUseSession(P, s).P

\* handler of SESSION_BROKEN registered by createSession
onSessionBroken(P, s) == deleteSession([P EXCEPT !.hist[s].broken = TRUE], s)

\* session[sessionRelease](): mark free, emit SESSION_RELEASE
sessionRelease(P, s) == onSessionRelease(sessionMarkReleased(P, s), s)

\* ---------------------------------------------------------------- actions
Init ==
    /\ sessions = {}
    /\ sess = [s \in Sids |-> NewSession]
    /\ created = 0
    /\ newSessionsRequested = 0
    /\ sessionsBeingDeleted = 0
    /\ waiters = <<>>
    /\ req = [o \in Owners |-> IdleReq]
    /\ deleting = [s \in Sids |-> 0]
    /\ destroyWait = {}
    /\ destroyLive = {}
    /\ destroyPc = "idle"
    /\ destroys = 0
    /\ att = [c \in Callers |-> NoAttempt]
    /\ last = NoLast
    /\ ev = [kind |-> "none", who |-> 0]
    /\ hist = [s \in Sids |-> NoHist]

\* Promise reactions are queued and not run yet.  Timers and stream events are
\* tasks of the event loop and run only when no reaction is left in the queue.
MicroPending ==
    \/ \E o \in Owners : req[o].pc \in {"added", "acquired"}
    \/ \E r \in Repls : req[r].pc = "holding"

\* Callers are interchangeable: a new call is always made by the idle caller
\* of least number.
CanCall(c, G) ==
    /\ c \in G
    /\ req[c].pc = "idle"
    /\ att[c].pc = "none"
    /\ \A d \in G : d < c => req[d].pc # "idle"

\* a user calls pool.acquire(timeout)
Acquire(c, G, timed) ==
    /\ CanCall(c, G)
    /\ Commit(acquire(Cur, c, timed))
    /\ UNCHANGED <<created, destroyWait, destroyLive, destroyPc, destroys, att>>
    /\ last' = NoLast

\* createSession resumes after sessionCreator.create(): handlers, sessions.add
CreateDone(o) ==
    /\ req[o].pc = "rpc"
    /\ created < MaxSessions
    /\ LET s == created + 1 IN
        /\ created' = s
        /\ Commit([Cur EXCEPT !.sessions = @ \cup {s},
                              !.req[o] = [pc |-> "added", sid |-> s, timed |-> FALSE]])
    /\ UNCHANGED <<destroyWait, destroyLive, destroyPc, destroys, att>>
    /\ last' = NoLast

\* getSessionBuilder() or sessionCreator.create() rejects: .then is skipped,
\* .finally decrements, the promise of acquire rejects; the acquire() that
\* deleteSession issues has no rejection handler, so its rejection is unhandled
CreateFail(o) ==
    /\ req[o].pc = "rpc"
    /\ Commit([Cur EXCEPT !.newSessionsRequested = @ - 1, !.req[o] = IdleReq,
                          !.ev = IF o \in Repls
                                 THEN [kind |-> "unhandled", who |-> o] ELSE @])
    /\ IF o \in Callers /\ att[o].pc = "run"
       THEN /\ att' = [att EXCEPT ![o] = NoAttempt]
            /\ last' = [NoLast EXCEPT !.reported = "thrown"]
       ELSE att' = att /\ last' = NoLast
    /\ UNCHANGED <<created, destroyWait, destroyLive, destroyPc, destroys>>

\* acquire: .then((session) => session[sessionAcquire]())
CreateThen(o) ==
    /\ req[o].pc = "added"
    /\ Commit([sessionAcquire(Cur, req[o].sid) EXCEPT !.req[o].pc = "acquired"])
    /\ UNCHANGED <<created, destroyWait, destroyLive, destroyPc, destroys, att>>
    /\ last' = NoLast

\* acquire: .finally(() => this.newSessionsRequested--), then the promise settles
CreateFinally(o) ==
    /\ req[o].pc = "acquired"
    /\ Commit([Cur EXCEPT !.newSessionsRequested = @ - 1, !.req[o].pc = "holding"])
    /\ UNCHANGED <<created, destroyWait, destroyLive, destroyPc, destroys, att>>
    /\ last' = NoLast

\* the timer of a waiter fires: splice it out, reject with SessionPoolEmpty
Timeout(c) ==
    /\ ~MicroPending
    /\ req[c].pc = "waiting"
    /\ req[c].timed
    /\ Commit(onTimeout(Cur, c))
    /\ UNCHANGED <<created, destroyWait, destroyLive, destroyPc, destroys, att>>
    /\ last' = NoLast

\* a user that holds a session from pool.acquire() releases it
Release(c) ==
    /\ req[c].pc = "holding"
    /\ att[c].pc = "none"
    /\ Commit(sessionRelease([Cur EXCEPT !.req[c] = IdleReq], req[c].sid))
    /\ UNCHANGED <<created, destroyWait, destroyLive, destroyPc, destroys, att>>
    /\ last' = NoLast

\* a user that holds a session ends as do does on BadSession or SessionBusy:
\* session.emit(SESSION_BROKEN)
Broken(c) ==
    /\ req[c].pc = "holding"
    /\ att[c].pc = "none"
    /\ Commit(onSessionBroken([Cur EXCEPT !.req[c] = IdleReq], req[c].sid))
    /\ UNCHANGED <<created, destroyWait, destroyLive, destroyPc, destroys, att>>
    /\ last' = NoLast

\* deleteSession: this.acquire().then((session) => ...)
ReplThen(r) ==
    /\ r \in Repls
    /\ req[r].pc = "holding"
    /\ LET s == req[r].sid
           P0 == [Cur EXCEPT !.req[r] = IdleReq]
           m == maybeUseSession(P0, s)
       IN Commit(IF m.used THEN m.P ELSE sessionRelease(P0, s))
    /\ UNCHANGED <<created, destroyWait, destroyLive, destroyPc, destroys, att>>
    /\ last' = NoLast

\* deleteSession: session.delete() settles; .finally removes and decrements
\* ok: the delete RPC succeeded.  When it rejects, the promise of deleteSession
\* rejects after the .finally: Promise.all of destroy() rejects at once, and a
\* SESSION_RELEASE / SESSION_BROKEN handler awaiting it rejects unhandled.
DeleteDone(s, ok) ==
    /\ deleting[s] > 0
    /\ Commit([Cur EXCEPT !.deleting[s] = @ - 1,
                          !.sessions = @ \ {s},
                          !.sessionsBeingDeleted = @ - 1,
                          !.hist[s].delDec = @ + 1,
                          !.hist[s].removed = @ + (IF s \in sessions THEN 1 ELSE 0),
                          !.ev = IF ~ok /\ s \notin destroyWait
                                 THEN [kind |-> "unhandled", who |-> s] ELSE @])
    /\ destroyWait' = destroyWait \ {s}
    /\ destroyPc' = IF destroyPc = "pending" /\ s \in destroyWait
                    THEN (IF ~ok THEN "rejected"
                          ELSE IF destroyWait \ {s} = {} THEN "resolved" ELSE "pending")
                    ELSE destroyPc
    /\ UNCHANGED <<created, destroyLive, destroys, att>>
    /\ last' = NoLast

\* the attach stream of a session ends (by itself, or closed by delete()):
\* session[sessionDeleteOnRelease](), whatever the state of the session
StreamClosed(s) ==
    /\ ~MicroPending
    /\ s \in 1..created
    /\ Commit(sessionDeleteOnRelease(Cur, s))
    /\ UNCHANGED <<created, destroyWait, destroyLive, destroyPc, destroys, att>>
    /\ last' = NoLast

\* destroy(): deleteSession for every live session, in the set's order
RECURSIVE deleteAll(_, _)
deleteAll(P, S) ==
    IF S = {} THEN P
    ELSE LET s == Min(S) IN deleteAll(deleteSession(P, s), S \ {s})

Destroy ==
    /\ destroys < MaxDestroys
    /\ destroyPc # "pending"
    /\ destroys' = destroys + 1
    /\ Commit(deleteAll(Cur, sessions))
    /\ LET pending == {s \in sessions : ~deleteGuard(Cur, s)} IN
        /\ destroyWait' = pending
        /\ destroyLive' = sessions
        /\ destroyPc' = IF pending = {} THEN "resolved" ELSE "pending"
    /\ UNCHANGED <<created, att>>
    /\ last' = NoLast

\* -------------------------------------------------------------- QueryClient
AUTO_TX == "auto"

\* commitTransaction / rollbackTransaction of the session: the transaction id
\* is dropped when the RPC is issued; a failing RPC does not bring it back
sessionEndTransaction(P, s) == [P EXCEPT !.sess[s].txId = FALSE]

isBadOrBusy(e) == e \in {"BadSession", "SessionBusy"}

\* a do that rolls back whenever a transaction is open
rollbackWhenOpen(open, e) == open

\* a do that signals broken on BadSession only
finallySignalBadOnly(error) == IF error = "BadSession" THEN "broken" ELSE "release"

\* do: the catch of the callback rolls back iff a transaction is open and the
\* error does not say the session is unusable
rollbackOnError(open, e) == open /\ ~isBadOrBusy(e)

\* a do that commits where it should roll back and the reverse
closingRpcSwapped(txs) == IF txs # "none" THEN "rollback" ELSE "commit"

\* do: which RPC closes the transaction left open by a successful callback
closingRpc(txs) == IF txs # "none" THEN "commit" ELSE "rollback"

\* do: the error the attempt ends with when the rollback in the catch of the
\* callback has settled (e: error of the callback, r: outcome of the rollback)
errorAfterRollback(e, r) == IF r # "none" THEN r ELSE e

\* do: the finally block, SESSION_BROKEN or release
finallySignal(error) == IF isBadOrBusy(error) THEN "broken" ELSE "release"

\* do: return {result} or {err, idempotent}, then the finally block
Finish(c, P, cbErr, rpcErr, error) ==
    LET s == req[c].sid
        P0 == [P EXCEPT !.req[c] = IdleReq]
        sig == finallySignal(error)
    IN /\ Commit(IF sig = "broken" THEN onSessionBroken(P0, s) ELSE sessionRelease(P0, s))
       /\ att' = [att EXCEPT ![c] = NoAttempt]
       /\ last' = [sid |-> s, cbErr |-> cbErr, rpcErr |-> rpcErr, reported |-> IF error = "none" THEN "ok" ELSE error,
                   signal |-> sig, txOpen |-> P.sess[s].txId]

\* the body of do(opts): the attempt starts with pool.acquire()
Attempt(c, api, txs) ==
    /\ CanCall(c, Clients)
    /\ Commit(acquire(Cur, c, FALSE))
    /\ att' = [att EXCEPT ![c] = [pc |-> "run", api |-> api, txs |-> txs, err |-> "none"]]
    /\ UNCHANGED <<created, destroyWait, destroyLive, destroyPc, destroys>>
    /\ last' = NoLast

\* do(opts)
Do(c, txs) == Attempt(c, "do", txs)

\* doTx(opts): the txSettings that doTx hands to do
txSettingsOfDoTx(txs) == IF txs = "none" THEN AUTO_TX ELSE txs

\* doTx(opts)
DoTx(c, txs) == Attempt(c, "doTx", txSettingsOfDoTx(txs))

\* the callback opens a transaction on its session
FnOpenTx(c) ==
    /\ att[c].pc = "run"
    /\ req[c].pc = "holding"
    /\ ~sess[req[c].sid].txId
    /\ Commit([Cur EXCEPT !.sess[req[c].sid].txId = TRUE])
    /\ UNCHANGED <<created, destroyWait, destroyLive, destroyPc, destroys, att>>
    /\ last' = NoLast

\* the callback settles: out is "none" (it returned) or the error it threw
FnDone(c, out) ==
    /\ att[c].pc = "run"
    /\ req[c].pc = "holding"
    /\ LET s == req[c].sid
           open == sess[s].txId
       IN IF out = "none" /\ open
          THEN /\ att' = [att EXCEPT ![c].pc = closingRpc(att[c].txs)]
               /\ Commit(sessionEndTransaction(Cur, s))
               /\ last' = NoLast
          ELSE IF out # "none" /\ rollbackOnError(open, out)
          THEN /\ att' = [att EXCEPT ![c].pc = "rbfail", ![c].err = out]
               /\ Commit(sessionEndTransaction(Cur, s))
               /\ last' = NoLast
          ELSE Finish(c, Cur, out, "none", out)
    /\ UNCHANGED <<created, destroyWait, destroyLive, destroyPc, destroys>>

\* the execution context of the do call reaches its deadline (or is cancelled)
\* while the attempt waits in pool.acquire(): do passes neither the context nor
\* a timeout to acquire, so nothing of the pool changes
Deadline(c) ==
    /\ ~MicroPending
    /\ att[c].pc = "run"
    /\ req[c].pc = "waiting"
    /\ Commit([Cur EXCEPT !.ev = [kind |-> "deadline", who |-> c]])
    /\ UNCHANGED <<created, destroyWait, destroyLive, destroyPc, destroys, att>>
    /\ last' = NoLast

\* the commit or rollback RPC settles: res is "none" or the error it failed with
RpcDone(c, res) ==
    /\ att[c].pc \in {"commit", "rollback", "rbfail"}
    /\ IF att[c].pc = "rbfail"
       THEN Finish(c, Cur, att[c].err, res, errorAfterRollback(att[c].err, res))
       ELSE Finish(c, Cur, "none", res, res)
    /\ UNCHANGED <<created, destroyWait, destroyLive, destroyPc, destroys>>

Outcomes == {"none"} \cup ErrKinds

Internal ==
    \/ \E o \in Owners : CreateDone(o)
    \/ \E o \in Owners : CreateFail(o)
    \/ \E o \in Owners : CreateThen(o)
    \/ \E o \in Owners : CreateFinally(o)
    \/ \E r \in Repls : ReplThen(r)
    \/ \E s \in Sids, ok \in BOOLEAN : DeleteDone(s, ok)

\* the pool under users that call acquire and end by a release or a broken signal
PoolNext ==
    \/ Internal
    \/ \E c \in Callers, timed \in BOOLEAN : Acquire(c, Callers, timed)
    \/ \E c \in Callers : Timeout(c)
    \/ \E c \in Callers : Release(c)
    \/ \E c \in Callers : Broken(c)
    \/ \E s \in Sids : StreamClosed(s)

PoolSpec == Init /\ [][PoolNext]_vars

\* the pool under users that wait without a timeout, with a shutdown by destroy()
DestroyNext ==
    \/ Internal
    \/ \E c \in Callers : Acquire(c, Callers, FALSE)
    \/ \E c \in Callers : Release(c)
    \/ \E c \in Callers : Broken(c)
    \/ \E s \in Sids : StreamClosed(s)
    \/ Destroy

DestroySpec == Init /\ [][DestroyNext]_vars

\* P starts no more session creations than the create RPC may still complete
InBudget(P) ==
    created + Cardinality({o \in Owners : P.req[o].pc = "rpc"}) <= MaxSessions

\* a holder ends by a release or by a broken signal
LiveEnd(c) ==
    \/ Release(c)
    \/ /\ req[c].pc = "holding"
       /\ InBudget(onSessionBroken([Cur EXCEPT !.req[c] = IdleReq], req[c].sid))
       /\ Broken(c)

\* the pool when every create and delete RPC succeeds
LiveNext ==
    \/ \E o \in Owners : CreateDone(o)
    \/ \E o \in Owners : CreateThen(o)
    \/ \E o \in Owners : CreateFinally(o)
    \/ \E r \in Repls : ReplThen(r)
    \/ \E s \in Sids : DeleteDone(s, TRUE)
    \/ \E c \in Callers, timed \in BOOLEAN :
          InBudget(acquire(Cur, c, timed)) /\ Acquire(c, Callers, timed)
    \/ \E c \in Callers : Timeout(c)
    \/ \E c \in Callers : LiveEnd(c)
    \/ \E s \in Sids : StreamClosed(s)

\* every RPC settles, every promise reaction runs, every holder ends
LiveFairness ==
    /\ \A o \in Owners : WF_vars(CreateDone(o))
    /\ \A o \in Owners : WF_vars(CreateThen(o))
    /\ \A o \in Owners : WF_vars(CreateFinally(o))
    /\ \A r \in Repls : WF_vars(ReplThen(r))
    /\ \A s \in Sids : WF_vars(DeleteDone(s, TRUE))
    /\ \A c \in Callers : WF_vars(LiveEnd(c))

LiveSpec == Init /\ [][LiveNext]_vars /\ LiveFairness

\* the pool under QueryClient.do and doTx
Next ==
    \/ Internal
    \/ \E c \in Others : Acquire(c, Others, FALSE)
    \/ \E c \in Others : Release(c)
    \/ \E c \in Clients, txs \in {"none", "user"} : Do(c, txs)
    \/ \E c \in Clients, txs \in {"none", "user"} : DoTx(c, txs)
    \/ \E c \in Clients : FnOpenTx(c)
    \/ \E c \in Clients, out \in Outcomes : FnDone(c, out)
    \/ \E c \in Clients, res \in Outcomes : RpcDone(c, res)
    \/ \E c \in Clients : Deadline(c)

Spec == Init /\ [][Next]_vars

\* ------------------------------------------------------------- properties
\* the acquire calls whose promise has resolved with session s and that have
\* not released it (or signalled it broken) yet
Holders(s) == {o \in Owners : req[o].pc = "holding" /\ req[o].sid = s}

\* o's acquire call is given a session in this step
Obtains(o) == req'[o].pc = "holding" /\ req[o] # req'[o]

Position(q, w) == indexOf(q, w) + 1

InQueue(q, w) == \E i \in 1..Len(q) : q[i] = w

\* C1: a session returned by a successful acquire (free-session scan, new
\* session, or waiter hand-off) is returned by no other acquire until its
\* holder has released it: no session has two holders.
C1_MutualExclusion == \A s \in Sids : Cardinality(Holders(s)) <= 1

\* C2: live sessions plus session creations in flight never exceed maxLimit.
C2_AdmissionBound == Cardinality(sessions) + newSessionsRequested <= maxLimit

\* maxLimit sessions are live, each held busy, nothing is in flight
Exhausted ==
    /\ Cardinality(sessions) = maxLimit
    /\ \A s \in sessions : ~sess[s].free /\ ~sess[s].deleted /\ Holders(s) # {}
    /\ newSessionsRequested = 0
    /\ sessionsBeingDeleted = 0

\* C3: with maxLimit sessions live and all held, and nothing in flight, a
\* further acquire creates no session and is enqueued as a waiter.
C3_ExhaustedAcquireWaits ==
    [][\A c \in Callers :
          (Exhausted /\ req[c].pc = "idle" /\ req'[c].pc # "idle")
              => (req'[c].pc = "waiting" /\ newSessionsRequested' = 0)]_vars

\* C4: a session handed to a waiter goes to the waiter at the head of the
\* queue; the waiters that stay keep their order and new ones join at the end.
C4_FifoHandOff ==
    [][/\ ev'.kind = "handoff" => (Len(waiters) > 0 /\ ev'.who = Head(waiters))
       /\ \A i, j \in 1..Len(waiters') :
             i < j =>
               /\ (InQueue(waiters, waiters'[i]) /\ InQueue(waiters, waiters'[j]))
                     => Position(waiters, waiters'[i]) < Position(waiters, waiters'[j])
               /\ InQueue(waiters, waiters'[j]) => InQueue(waiters, waiters'[i])]_vars

\* a caller was handed a session while another caller stayed queued behind it
C4_Witness ==
    /\ ev.kind = "handoff"
    /\ ev.who \in Callers
    /\ \E i \in 1..Len(waiters) : waiters[i] \in Callers

\* C5: a waiter leaves the queue by exactly one of timeout and hand-off; the
\* timeout removes that waiter and no other and keeps the order of the rest;
\* only a queued waiter is ever handed a session, so none is after its timeout.
C5_TimeoutCleanup ==
    /\ [](\A o \in Owners :
            /\ req[o].pc = "waiting" <=> InQueue(waiters, o)
            /\ Cardinality({i \in 1..Len(waiters) : waiters[i] = o}) <= 1)
    /\ [][/\ ev'.kind = "timeout" =>
               /\ req[ev'.who].pc = "waiting" /\ req[ev'.who].timed
               /\ req'[ev'.who].pc = "idle"
               /\ waiters' = SelectSeq(waiters, LAMBDA x : x # ev'.who)
          /\ ev'.kind = "handoff" =>
               /\ req[ev'.who].pc = "waiting"
               /\ req'[ev'.who].pc = "holding"
          /\ \A o \in Owners :
               (req[o].pc = "waiting" /\ req'[o].pc # "waiting")
                   => (ev'.kind \in {"timeout", "handoff"} /\ ev'.who = o)]_vars

\* a waiter timed out of a queue in which others stay
C5_Witness == ev.kind = "timeout" /\ Len(waiters) >= 1

\* o's acquire call is given a session that was already in the pool: found
\* free by the scan of acquire, or handed to it as a waiter
ObtainsPooled(o) == Obtains(o) /\ req[o].pc \in {"idle", "waiting"}

\* C6: no session that is deleted or whose deletion has started is returned
\* by acquire or delivered to a waiter; in particular the replacement acquire
\* that deleteSession issues never yields the session being deleted.
C6_DeletedNeverReturned ==
    [][\A o \in Owners : ObtainsPooled(o) => ~sess'[req'[o].sid].deleted]_vars

\* C7: after SESSION_BROKEN for a session no acquire call is given it, and
\* its deletion is counted and performed exactly once.
C7_BrokenExcluded ==
    /\ [](\A s \in Sids :
            /\ hist[s].delInc <= 1 /\ hist[s].delDec <= 1 /\ hist[s].removed <= 1
            /\ hist[s].broken => hist[s].delInc = 1)
    /\ [][\A o \in Owners : Obtains(o) => ~hist'[req'[o].sid].broken]_vars

\* C8: a session is released by do with no transaction open, so no session
\* that is Free in the pool has an open transaction.
C8_TransactionClosure ==
    /\ last.signal = "release" => ~last.txOpen
    /\ \A s \in sessions : (sess[s].free /\ ~sess[s].deleted) => ~sess[s].txId

\* the callback of c's attempt returns normally in this step
FnReturns(c) ==
    /\ att[c].pc = "run"
    /\ req[c].pc = "holding"
    /\ \/ att'[c].pc \in {"commit", "rollback"}
       \/ att'[c].pc = "none" /\ last'.reported = "ok"

\* C9: when the callback returns normally with a transaction open, do issues
\* one commit and no rollback if txSettings was supplied (always so for doTx),
\* one rollback and no commit if not; with no transaction open, neither.
C9_TransactionResolution ==
    /\ [](\A c \in Clients : att[c].api = "doTx" => att[c].txs # "none")
    /\ [][\A c \in Clients :
            /\ FnReturns(c) =>
                 LET open == sess[req[c].sid].txId IN
                 /\ (open /\ att[c].txs # "none") => att'[c].pc = "commit"
                 /\ (open /\ att[c].txs = "none") => att'[c].pc = "rollback"
                 /\ ~open => att'[c].pc = "none"
            /\ att'[c].pc \in {"commit", "rollback"} =>
                 \/ att[c].pc = att'[c].pc
                 \/ FnReturns(c) /\ sess[req[c].sid].txId
            /\ (att[c].pc \in {"commit", "rollback"} /\ att'[c].pc # att[c].pc)
                 => att'[c].pc = "none"]_vars

\* doTx without txSettings has issued the commit of the transaction
C9_Witness ==
    \E c \in Clients : att[c].pc = "commit" /\ att[c].api = "doTx" /\ att[c].txs = AUTO_TX

\* C10: when the callback fails with E and the rollback then fails with R,
\* the attempt reports E, and release or broken is decided on E.
C10_OriginalErrorPropagates ==
    (last.cbErr # "none" /\ last.rpcErr # "none")
        => (last.reported = last.cbErr /\ last.signal = finallySignal(last.cbErr))

\* the attempt of c, which holds a session, ends in this step
AttemptEnds(c) == att[c].pc # "none" /\ req[c].pc = "holding" /\ att'[c].pc = "none"

\* C11: an attempt of do that acquired a session ends with exactly one of
\* SESSION_BROKEN and a release of that session: SESSION_BROKEN (the pool
\* starts the deletion, nothing is handed on) iff the attempt's error is
\* BadSession or SessionBusy, a release otherwise, success included.
C11_OneTerminalSignal ==
    [][\A c \in Clients :
          AttemptEnds(c) =>
             LET s == req[c].sid
                 bad == last'.reported \in {"BadSession", "SessionBusy"}
             IN /\ last'.sid = s
                /\ last'.signal \in {"broken", "release"}
                /\ last'.signal = "broken" <=> bad
                /\ hist'[s].broken = (hist[s].broken \/ bad)
                /\ bad => sess'[s].deleted
                /\ (~bad /\ ~sess[s].closing /\ ~sess[s].deleted)
                      => (sess'[s].free \/ ev'.kind = "handoff")]_vars

\* an attempt that ended with SessionBusy signalled its session broken
C11_Witness == last.reported = "SessionBusy" /\ last.signal = "broken"

\* C12: when the deadline of a do call passes while its attempt is queued in
\* pool.acquire, the attempt's waiter does not stay in the waiter queue.
C12_DeadlineBoundsAcquire ==
    ev.kind = "deadline" => ~InQueue(waiters, ev.who)

\* C13: no failure of an attempt, a failure of pool.acquire included, leaves
\* the attempt function as a thrown exception.
C13_FailuresAreValues == last.reported # "thrown"

\* the callback of c's attempt fails in this step
FnFails(c) ==
    /\ att[c].pc = "run"
    /\ req[c].pc = "holding"
    /\ \/ att'[c].pc = "rbfail"
       \/ att'[c].pc = "none" /\ last'.cbErr # "none"

\* C15: when the callback fails, a rollback is issued iff a transaction is
\* open and the error is neither BadSession nor SessionBusy; no commit is
\* issued on the failure path.
C15_RollbackGuard ==
    [][\A c \in Clients :
          /\ FnFails(c) =>
               LET open == sess[req[c].sid].txId
                   e == IF att'[c].pc = "rbfail" THEN att'[c].err ELSE last'.cbErr
               IN att'[c].pc = "rbfail" <=> (open /\ e \notin {"BadSession", "SessionBusy"})
          /\ att'[c].pc = "rbfail" => (att[c].pc = "rbfail" \/ FnFails(c))
          /\ (att[c].pc = "rbfail" /\ att'[c].pc # "rbfail") => att'[c].pc = "none"]_vars

\* a rollback was issued after the callback failed with a transaction open
C15_Witness == \E c \in Clients : att[c].pc = "rbfail" /\ att[c].err = "Other"

\* C14: destroy starts the deletion of every session live at the call, and
\* its promise resolves only when each of them has been removed from the
\* live set.
C14_DestroyCompletes ==
    /\ [](destroyPc # "idle" => \A s \in destroyLive : sess[s].deleted)
    /\ [](destroyPc = "resolved" => destroyLive \cap sessions = {})

\* C17: a session whose attach stream ended while it was Free is not kept
\* available in the pool, and no acquire is given it.
C17_StreamEndOnFree ==
    /\ [](\A s \in sessions : sessionIsFree(Cur, s) => ~sess[s].closing)
    /\ [][\A o \in Owners :
            ObtainsPooled(o) =>
               ~(sess[req'[o].sid].closing /\ sessionIsFree(Cur, req'[o].sid))]_vars

\* C18: while a waiter is queued no session of the live set is Free.
C18_NoStealing ==
    Len(waiters) > 0 => FreeSessions(Cur) = {}

\* the acquire calls whose session creation has started and not settled
Creating == {o \in Owners : req[o].pc \in {"rpc", "added", "acquired"}}

\* C19: newSessionsRequested counts the creations started and not settled,
\* sessionsBeingDeleted the deletions started and not settled; and when the
\* admission gate is evaluated no session of the live set is still counted
\* in newSessionsRequested.
C19_CounterConsistency ==
    /\ [](/\ newSessionsRequested = Cardinality(Creating)
          /\ sessionsBeingDeleted = Cardinality({s \in Sids : deleting[s] > 0})
          /\ \A s \in Sids : deleting[s] <= 1
          /\ newSessionsRequested >= 0 /\ sessionsBeingDeleted >= 0)
    /\ [][\A o \in Owners :
            (req[o].pc = "idle" /\ req'[o].pc \in {"rpc", "waiting"})
               => ~\E o2 \in Owners : req[o2].pc \in {"added", "acquired"}]_vars

\* C20: no waiter is queued while no session is busy and neither a creation
\* nor a deletion is in flight.
C20_NoStrandedWaiters ==
    Len(waiters) > 0 =>
        \/ \E s \in sessions : ~sess[s].free /\ ~sess[s].deleted
        \/ newSessionsRequested > 0
        \/ sessionsBeingDeleted > 0

\* C16: when every create and delete RPC succeeds and every holder ends by a
\* release or a broken signal, every waiter of acquire(0) is given a session.
C16_WaiterLiveness ==
    \A c \in Callers :
        (req[c].pc = "waiting" /\ ~req[c].timed) ~> (req[c].pc = "holding")

====
